---- MODULE Spec2Model ----
(***************************************************************************)
(* Oracle dashboard (src/app.py): the cached market snapshot provider, the *)
(* random-walk performance generator and the Risk Analysis page.           *)
(*                                                                         *)
(* Units.  Prices are integers in units of 0.0005 USD (a base price in     *)
(* units of 0.05 USD times a factor in hundredths).  Uniform variates are  *)
(* tenths u in 0..9, standing for u/10 in [0, 1).  Time is in seconds.     *)
(* Balances are in units of 0.1 USDT and relative returns in tenths.       *)
(***************************************************************************)
EXTENDS Integers, Sequences, FiniteSets, TLC

VARIABLES
    now,          \* wall clock, seconds
    api,          \* what the price API answers for each instrument right now
    cache,        \* st.cache_data entry of load_market_data: <<>> or <<[value, at]>>
    market_data,  \* main's market_data of the latest script run: <<>> or <<snapshot>>
    fx,           \* what the latest script run did: kind, HTTP requests, random draws, rerun
    runbit,       \* flips at every script run
    ppc,          \* position of generate_sample_performance_data / the risk page
    hours,        \* window of the generator, days * 24
    dates,        \* pd.date_range result
    idx,          \* loop index into dates
    ai_balance,
    rl_balance,
    data,         \* rows appended so far (the DataFrame)
    risk          \* what the Risk Analysis page emitted

vars == <<now, api, cache, market_data, fx, runbit,
          ppc, hours, dates, idx, ai_balance, rl_balance, data, risk>>

marketVars == <<now, api, cache, market_data, fx, runbit>>
perfVars == <<ppc, hours, dates, idx, ai_balance, rl_balance, data, risk>>

-----------------------------------------------------------------------------
(* Bounds of the model *)

MaxTime == 600
MaxHours == 23
MaxShortHours == 2

-----------------------------------------------------------------------------
(* Market snapshot: load_market_data and generate_sample_market_data *)

\* ttl=300, time.sleep(30), the five instruments
TTL == 300
SLEEP == 30
NSYM == 5

symbols == <<"bitcoin", "ethereum", "binancecoin", "cardano", "solana">>

SAMPLE_SYMBOLS == <<"BITCOIN", "ETHEREUM", "BINANCECOIN", "CARDANO", "SOLANA">>

\* str.upper() on the five instrument ids
upper(s) ==
    CASE s = "bitcoin" -> "BITCOIN"
      [] s = "ethereum" -> "ETHEREUM"
      [] s = "binancecoin" -> "BINANCECOIN"
      [] s = "cardano" -> "CARDANO"
      [] s = "solana" -> "SOLANA"

\* 45000, 3200, 320, 0.45, 95 USD in units of 0.05 USD
base_prices == <<900000, 64000, 6400, 9, 1900>>

\* variates are multiples of 1 / UDen
UDen == 10

\* np.random.uniform(lo, hi) for the variate u / UDen in [0, 1)
uniformBad(lo, hi, u) == lo + ((2 * (hi - lo)) * u) \div UDen
uniform(lo, hi, u) == lo + ((hi - lo) * u) \div UDen

EmptyDict == [k \in {} |-> 0]

Put(d, k, v) == [x \in (DOMAIN d) \cup {k} |-> IF x = k THEN v ELSE d[x]]

\* The loop of generate_sample_market_data over enumerate(symbols); us is the
\* sequence of variates the random source hands out, two per instrument.
RECURSIVE SampleLoop(_, _, _)
SampleLoop(i, prices, us) ==
    IF i > Len(SAMPLE_SYMBOLS) THEN prices
    ELSE LET price == base_prices[i] * uniform(95, 105, us[2 * i - 1])
             change == uniform(-10, 10, us[2 * i])
         IN SampleLoop(i + 1,
                       Put(prices, SAMPLE_SYMBOLS[i],
                           [price |-> price, change_24h |-> change]),
                       us)

generate_sample_market_data(us) == SampleLoop(1, EmptyDict, us)

\* What one requests.get / response.json() can do:
\*   raise   requests.get or response.json() raises (network error, timeout, bad body)
\*   non200  a response whose status_code is not 200
\*   nokey   status 200, the instrument id is not a key of the JSON body
\*   nousd   status 200, the instrument's object has no 'usd' field
\*   ok      status 200 with 'usd' and 'usd_24h_change'
\*   nochg   status 200 with 'usd' only
RespKinds == {"raise", "non200", "nokey", "nousd", "ok", "nochg"}

Raising == {"raise", "nousd"}
Skipped == {"non200", "nokey"}
Quoted == {"ok", "nochg"}

Resp(kind, i, v) ==
    [kind |-> kind,
     usd |-> IF kind \in Quoted THEN 1000 * i + v ELSE 0,
     chg |-> IF kind = "ok" THEN v ELSE 0]

\* One iteration of the for loop of load_market_data: the try body for one
\* instrument.  exc is TRUE when the iteration raised.
FetchOneSkipErrors(r, sym, prices) ==
    IF r.kind \in Raising \cup Skipped THEN [exc |-> FALSE, prices |-> prices]
    ELSE [exc |-> FALSE,
          prices |-> Put(prices, upper(sym),
                         [price |-> r.usd,
                          change_24h |-> IF r.kind = "ok" THEN r.chg ELSE 0])]
FetchOne(r, sym, prices) ==
    IF r.kind = "raise" THEN [exc |-> TRUE, prices |-> prices]
    ELSE IF r.kind = "non200" THEN [exc |-> FALSE, prices |-> prices]
    ELSE IF r.kind = "nokey" THEN [exc |-> FALSE, prices |-> prices]
    ELSE IF r.kind = "nousd" THEN [exc |-> TRUE, prices |-> prices]
    ELSE [exc |-> FALSE,
          prices |-> Put(prices, upper(sym),
                         [price |-> r.usd,
                          change_24h |-> IF r.kind = "ok" THEN r.chg ELSE 0])]

RECURSIVE FetchLoop(_, _, _)
FetchLoop(a, i, prices) ==
    IF i > Len(symbols) THEN [exc |-> FALSE, prices |-> prices, http |-> Len(symbols)]
    ELSE LET one == FetchOne(a[i], symbols[i], prices)
         IN IF one.exc THEN [exc |-> TRUE, prices |-> prices, http |-> i]
            ELSE FetchLoop(a, i + 1, one.prices)

\* The body of load_market_data: the value returned, the HTTP requests made
\* and the random variates drawn.
load_market_data(a, us) ==
    LET live == FetchLoop(a, 1, EmptyDict)
    IN IF live.exc
       THEN [value |-> generate_sample_market_data(us), http |-> live.http,
             rng |-> 2 * Len(SAMPLE_SYMBOLS)]
       ELSE [value |-> live.prices, http |-> live.http, rng |-> 0]

-----------------------------------------------------------------------------
(* st.cache_data(ttl=300) around load_market_data *)

CacheValidLate(c, t) == c # <<>> /\ t - c[1].at <= TTL
CacheValid(c, t) == c # <<>> /\ t - c[1].at < TTL

CacheStoreFullOnly(c, v, t) ==
    IF Cardinality(DOMAIN v) = NSYM THEN <<[value |-> v, at |-> t]>> ELSE <<>>
CacheStore(c, v, t) == <<[value |-> v, at |-> t]>>

CacheClearNoop(c) == c
CacheClear(c) == <<>>

-----------------------------------------------------------------------------
(* generate_sample_performance_data *)

\* freq='H', in seconds
HOUR == 3600
\* 10000 USDT in units of 0.1 USDT
INITIAL_BALANCE == 100000
\* returns are multiples of 1 / RDen
RDen == 10

\* pd.date_range(start, end, freq='H'): start, start + 1h, ... up to end
date_range_open(start, end) ==
    [k \in 1 .. ((end - start) \div HOUR) |-> start + (k - 1) * HOUR]
date_range(start, end) ==
    [k \in 1 .. ((end - start) \div HOUR + 1) |-> start + (k - 1) * HOUR]

\* balance *= (1 + change), change = r / RDen
grow(balance, r) == (balance * (RDen + r)) \div RDen

Abs(n) == IF n < 0 THEN -n ELSE n

RECURSIVE GCD(_, _)
GCD(a, b) == IF b = 0 THEN a ELSE GCD(b, a % b)

\* The float n / d as a fraction in lowest terms with a positive denominator;
\* a zero denominator gives what the float division gives: +-inf (num +-1)
\* or NaN (num 0).
Rat(n, d) ==
    IF d = 0
    THEN [num |-> IF n > 0 THEN 1 ELSE IF n < 0 THEN -1 ELSE 0, den |-> 0]
    ELSE LET g == GCD(Abs(n), Abs(d))
             sg == IF d < 0 THEN -1 ELSE 1
         IN [num |-> sg * (n \div g), den |-> sg * (d \div g)]

IsNaN(q) == q.den = 0 /\ q.num = 0

row(date, agent, balance, trades) ==
    [timestamp |-> date,
     agent |-> agent,
     balance_usdt |-> balance,
     roi_eff |-> Rat((balance - INITIAL_BALANCE) * 100, INITIAL_BALANCE),
     trade_count |-> trades]

\* the call: dates, the two starting balances, the empty row list.  window is
\* days * 24; gap is the time between the two datetime.now() calls.
GenStart(Windows, Gaps) ==
    /\ ppc = "idle"
    /\ \E window \in Windows : \E gap \in Gaps :
           /\ hours' = window
           /\ dates' = date_range(now - window * HOUR, now + gap)
    /\ ai_balance' = INITIAL_BALANCE
    /\ rl_balance' = INITIAL_BALANCE
    /\ data' = <<>>
    /\ idx' = 1
    /\ ppc' = "loop"
    /\ UNCHANGED <<marketVars, risk>>

\* one iteration of "for date in dates"; the sets are what the random source
\* can hand out for the two returns and the two trade counts
GenStep(AiDraws, RlDraws, AiTrades, RlTrades) ==
    /\ ppc = "loop"
    /\ idx <= Len(dates)
    /\ \E ai_change \in AiDraws : \E rl_change \in RlDraws :
       \E ai_trades \in AiTrades : \E rl_trades \in RlTrades :
           LET ai == grow(ai_balance, ai_change)
               rl == grow(rl_balance, rl_change)
           IN /\ ai_balance' = ai
              /\ rl_balance' = rl
              /\ data' = data \o <<row(dates[idx], "AI", ai, ai_trades),
                                   row(dates[idx], "RL", rl, rl_trades)>>
    /\ idx' = idx + 1
    /\ UNCHANGED <<marketVars, ppc, hours, dates, risk>>

\* return pd.DataFrame(data)
GenReturn ==
    /\ ppc = "loop"
    /\ idx > Len(dates)
    /\ ppc' = "done"
    /\ UNCHANGED <<marketVars, hours, dates, idx, ai_balance, rl_balance, data, risk>>

-----------------------------------------------------------------------------
(* The Risk Analysis page of main and create_risk_analysis_chart *)

VAR_MIN == 20

RECURSIVE SelectAgent(_, _)
SelectAgent(df, agent) ==
    IF df = <<>> THEN <<>>
    ELSE IF Head(df).agent = agent
         THEN <<Head(df)>> \o SelectAgent(Tail(df), agent)
         ELSE SelectAgent(Tail(df), agent)

\* df[df['agent'] == agent]['balance_usdt']
balances(df, agent) ==
    LET rows == SelectAgent(df, agent) IN [t \in 1 .. Len(rows) |-> rows[t].balance_usdt]

RECURSIVE DropNa(_)
DropNa(qs) ==
    IF qs = <<>> THEN <<>>
    ELSE IF IsNaN(Head(qs)) THEN DropNa(Tail(qs))
         ELSE <<Head(qs)>> \o DropNa(Tail(qs))

\* series.pct_change().dropna(): b[t] / b[t-1] - 1, the first (NaN) dropped
pct_change_dropna(b) ==
    DropNa([t \in 1 .. (IF Len(b) = 0 THEN 0 ELSE Len(b) - 1) |->
                Rat(b[t + 1] - b[t], b[t])])

\* returns.std(): NaN below two observations (or with an infinite one),
\* zero when all are equal, positive otherwise
std(rs) ==
    IF Len(rs) < 2 \/ \E t \in 1 .. Len(rs) : rs[t].den = 0 THEN "nan"
    ELSE IF \A t \in 1 .. Len(rs) : rs[t] = rs[1] THEN "zero"
    ELSE "pos"

\* len(returns) > 20
var_shown_from_20(rs) == Len(rs) >= VAR_MIN
var_shown(rs) == Len(rs) > VAR_MIN

\* the st.metric calls of one column of the page
agent_metrics(rs) ==
    <<[label |-> "Volatility", value |-> std(rs)],
      [label |-> "Sharpe Ratio", value |-> IF std(rs) = "pos" THEN "ratio" ELSE "0"]>>
      \o (IF var_shown(rs) THEN <<[label |-> "VaR (5%)", value |-> "quantile"]>>
          ELSE <<>>)

RECURSIVE MaxUpTo(_, _)
MaxUpTo(b, t) ==
    IF t = 1 THEN b[1]
    ELSE LET m == MaxUpTo(b, t - 1) IN IF b[t] > m THEN b[t] ELSE m

\* series.expanding().max()
expanding_max(b) == [t \in 1 .. Len(b) |-> MaxUpTo(b, t)]

\* (series - peak) / peak * 100
drawdown(b) ==
    LET peak == expanding_max(b)
    IN [t \in 1 .. Len(b) |-> Rat((b[t] - peak[t]) * 100, peak[t])]

\* the traces of the figure; none for an empty frame
create_risk_analysis_chart(df) ==
    IF df = <<>> THEN [traces |-> FALSE, ai_drawdown |-> <<>>, rl_drawdown |-> <<>>]
    ELSE [traces |-> TRUE,
          ai_drawdown |-> drawdown(balances(df, "AI")),
          rl_drawdown |-> drawdown(balances(df, "RL"))]

\* the branch  elif page == "Risk Analysis"
RiskPage ==
    /\ ppc = "done"
    /\ ppc' = "risk"
    /\ risk' =
         IF data = <<>>
         THEN <<[warning |-> TRUE, ai |-> <<>>, rl |-> <<>>,
                 chart |-> [traces |-> FALSE, ai_drawdown |-> <<>>, rl_drawdown |-> <<>>]]>>
         ELSE <<[warning |-> FALSE,
                 ai |-> agent_metrics(pct_change_dropna(balances(data, "AI"))),
                 rl |-> agent_metrics(pct_change_dropna(balances(data, "RL"))),
                 chart |-> create_risk_analysis_chart(data)]>>
    /\ UNCHANGED <<marketVars, hours, dates, idx, ai_balance, rl_balance, data>>

MarketIdle ==
    /\ now = 0
    /\ api = [i \in 1 .. NSYM |-> Resp("ok", i, 1)]
    /\ cache = <<>>
    /\ market_data = <<>>
    /\ fx = [kind |-> "none", http |-> 0, rng |-> 0, rerun |-> FALSE]
    /\ runbit = 0

\* Returns in tenths: a loss beyond 100 %, a loss of 10 %, a gain of 10 %.
\* np.random.normal has no lower bound, so 1 + change can be negative.
WideDraws == {-(RDen + 1), -1, 1}

\* Short windows, every combination of draws.  The risk page is also run on
\* an empty frame, which the generator itself never returns.
InitSeries ==
    /\ MarketIdle
    /\ hours = 0
    /\ dates = <<>>
    /\ idx = 0
    /\ ai_balance = 0
    /\ rl_balance = 0
    /\ data = <<>>
    /\ risk = <<>>
    /\ ppc \in {"idle", "done"}

NextSeries ==
    \/ GenStart(0 .. MaxShortHours, {0, 1})
    \/ GenStep(WideDraws, WideDraws, {0, 4}, {0, 7})
    \/ GenReturn
    \/ RiskPage

SpecSeries == InitSeries /\ [][NextSeries]_vars

\* Windows up to a day, one draw per step.
InitGrid ==
    /\ MarketIdle
    /\ hours = 0
    /\ dates = <<>>
    /\ idx = 0
    /\ ai_balance = 0
    /\ rl_balance = 0
    /\ data = <<>>
    /\ risk = <<>>
    /\ ppc = "idle"

NextGrid ==
    \/ GenStart(0 .. MaxHours, {0, 1})
    \/ GenStep({0}, {0}, {2}, {3})
    \/ GenReturn
    \/ RiskPage

SpecGrid == InitGrid /\ [][NextGrid]_vars

-----------------------------------------------------------------------------
(* The environment: the price API, the random source, the clock *)

AllOk(v) == [i \in 1 .. NSYM |-> Resp("ok", i, v)]
OneKind(kind, j, v) == [i \in 1 .. NSYM |-> Resp(IF i = j THEN kind ELSE "ok", i, v)]
AllKind(kind) == [i \in 1 .. NSYM |-> Resp(kind, i, 1)]

\* API behaviours the render cycles run against
ApiScenarios ==
    {AllOk(1), AllOk(2), OneKind("non200", 2, 1), AllKind("non200"),
     OneKind("raise", 3, 1), AllKind("raise")}

\* every combination of behaviours over the five instruments
AllApis == {[i \in 1 .. NSYM |-> Resp(k[i], i, 1)] : k \in [1 .. NSYM -> RespKinds]}

Mid == UDen \div 2
Hi == UDen - 1

\* variate sequences of the fallback generator: price variate, change variate, ...
RngSeqs ==
    {[i \in 1 .. 2 * NSYM |-> IF i % 2 = 1 THEN p ELSE c] : p, c \in {0, Mid, Hi}}
      \cup {[i \in 1 .. 2 * NSYM |-> (3 * i) % UDen]}

CacheRngSeqs ==
    {[i \in 1 .. 2 * NSYM |-> 0], [i \in 1 .. 2 * NSYM |-> Hi]}

Delays == {SLEEP, TTL - SLEEP}

NoFx == [kind |-> "none", http |-> 0, rng |-> 0, rerun |-> FALSE]

PerfIdle ==
    /\ ppc = "idle"
    /\ hours = 0
    /\ dates = <<>>
    /\ idx = 0
    /\ ai_balance = 0
    /\ rl_balance = 0
    /\ data = <<>>
    /\ risk = <<>>

-----------------------------------------------------------------------------
(* main: one script run, as far as the market snapshot is concerned.  The  *)
(* rest of the run (performance series, page rendering) reads market_data  *)
(* and never touches the cache.                                            *)

main(clicked, auto_refresh, us) ==
    /\ clicked => ~fx.rerun
    /\ runbit' = 1 - runbit
    /\ IF clicked
       THEN \* st.cache_data.clear(); st.rerun()
            /\ cache' = CacheClear(cache)
            /\ fx' = [kind |-> "refresh", http |-> 0, rng |-> 0, rerun |-> TRUE]
            /\ UNCHANGED <<market_data, now>>
       ELSE /\ IF CacheValid(cache, now)
               THEN /\ market_data' = <<cache[1].value>>
                    /\ cache' = cache
                    /\ fx' = [kind |-> "hit", http |-> 0, rng |-> 0,
                              rerun |-> auto_refresh]
               ELSE LET r == load_market_data(api, us)
                    IN /\ market_data' = <<r.value>>
                       /\ cache' = CacheStore(cache, r.value, now)
                       /\ fx' = [kind |-> "miss", http |-> r.http, rng |-> r.rng,
                                 rerun |-> auto_refresh]
            \* time.sleep(30); st.rerun()
            /\ IF auto_refresh
               THEN now + SLEEP <= MaxTime /\ now' = now + SLEEP
               ELSE now' = now
    /\ UNCHANGED <<api, perfVars>>

ScriptRun == \E clicked, auto_refresh \in BOOLEAN : \E us \in CacheRngSeqs :
                 main(clicked, auto_refresh, us)

Tick ==
    /\ \E d \in Delays : now + d <= MaxTime /\ now' = now + d
    /\ UNCHANGED <<api, cache, market_data, fx, runbit, perfVars>>

ApiChange ==
    /\ \E a \in ApiScenarios : a # api /\ api' = a
    /\ UNCHANGED <<now, cache, market_data, fx, runbit, perfVars>>

Init ==
    /\ now = 0
    /\ api = AllOk(1)
    /\ cache = <<>>
    /\ market_data = <<>>
    /\ fx = NoFx
    /\ runbit = 0
    /\ PerfIdle

Next == ScriptRun \/ Tick \/ ApiChange

Spec == Init /\ [][Next]_vars

\* The first page view of a fresh process, under every API behaviour.
InitMarket ==
    /\ now = 0
    /\ api \in AllApis
    /\ cache = <<>>
    /\ market_data = <<>>
    /\ fx = NoFx
    /\ runbit = 0
    /\ PerfIdle

FirstRun == fx.kind = "none" /\ \E us \in RngSeqs : main(FALSE, FALSE, us)

NextMarket == FirstRun

SpecMarket == InitMarket /\ [][NextMarket]_vars

-----------------------------------------------------------------------------
(* Properties of the market snapshot *)

AllUpper == {SAMPLE_SYMBOLS[i] : i \in 1 .. NSYM}

SyntheticSnapshots == {generate_sample_market_data(us) : us \in RngSeqs}

Fetched == fx.kind = "miss" /\ market_data # <<>>

\* the live entry the code builds from a quoted response
LiveEntry(r) == [price |-> r.usd, change_24h |-> IF r.kind = "ok" THEN r.chg ELSE 0]

\* C1 (as stated): if the live fetch of any instrument fails (request raises,
\* non-200 status, missing instrument key or missing field), the snapshot
\* returned is entirely the synthetic one, and a snapshot is never a strict
\* subset of the instruments.
C1_AllOrNothingAsStated ==
    Fetched =>
        /\ (\E i \in 1 .. NSYM : api[i].kind \notin Quoted)
               => market_data[1] \in SyntheticSnapshots
        /\ DOMAIN market_data[1] = AllUpper

\* C1 (amended): the fallback is all-or-nothing only for failures that raise
\* (request error or timeout, missing 'usd' field): then the snapshot is the
\* synthetic one with all five instruments.  When nothing raises, the snapshot
\* holds exactly the live entries of the instruments answered with status 200
\* and their key present; an instrument with a non-200 status or a missing key
\* is left out, so the snapshot can be a strict subset, even empty.  Live and
\* synthetic entries are never mixed.
C1_FallbackOnlyOnException ==
    Fetched =>
        IF \E i \in 1 .. NSYM : api[i].kind \in Raising
        THEN /\ market_data[1] \in SyntheticSnapshots
             /\ DOMAIN market_data[1] = AllUpper
             /\ fx.rng = 2 * NSYM
        ELSE /\ DOMAIN market_data[1]
                    = {upper(symbols[i]) : i \in {j \in 1 .. NSYM : api[j].kind \in Quoted}}
             /\ \A i \in 1 .. NSYM :
                    api[i].kind \in Quoted
                        => market_data[1][upper(symbols[i])] = LiveEntry(api[i])
             /\ fx.rng = 0

C1_Witness ==
    /\ Fetched
    /\ api[1].kind = "ok"
    /\ api[2].kind = "non200"
    /\ api[3].kind = "nokey"
    /\ api[4].kind = "nochg"
    /\ api[5].kind = "ok"
    /\ DOMAIN market_data[1] = {"BITCOIN", "CARDANO", "SOLANA"}

\* C2: when every request raises, the snapshot has one entry per instrument,
\* each price within [0.95, 1.05] times its base price and each change_24h
\* within [-10, 10], and the caller gets a value, not an error.
C2_FallbackRanges ==
    (fx.kind = "miss" /\ \A i \in 1 .. NSYM : api[i].kind = "raise") =>
        /\ market_data # <<>>
        /\ DOMAIN market_data[1] = AllUpper
        /\ \A i \in 1 .. NSYM :
               LET e == market_data[1][SAMPLE_SYMBOLS[i]]
               IN /\ 95 * base_prices[i] <= e.price
                  /\ e.price <= 105 * base_prices[i]
                  /\ -10 <= e.change_24h
                  /\ e.change_24h <= 10

C2_Witness ==
    /\ Fetched
    /\ \A i \in 1 .. NSYM : api[i].kind = "raise"
    /\ fx.http = 1
    /\ market_data[1]["CARDANO"].price = 9 * 104
    /\ market_data[1]["CARDANO"].change_24h = 8

-----------------------------------------------------------------------------
(* Properties of the cache *)

ReadStep == runbit' # runbit /\ fx'.kind # "refresh"

Degraded(v) == v \in SyntheticSnapshots \/ DOMAIN v # AllUpper

\* C3: a read within 300 seconds of the fetch that filled the cache, with no
\* refresh in between, returns the value of the read before it, makes no HTTP
\* request and draws no random number; a read once 300 seconds have elapsed
\* performs a new fetch.
C3_TtlReads ==
    [][ReadStep =>
          IF cache # <<>> /\ now - cache[1].at < TTL
          THEN /\ market_data' = market_data
               /\ market_data' = <<cache[1].value>>
               /\ cache' = cache
               /\ fx'.kind = "hit" /\ fx'.http = 0 /\ fx'.rng = 0
          ELSE /\ fx'.kind = "miss" /\ fx'.http >= 1
               /\ cache' # <<>> /\ cache'[1].at = now]_vars

C3_Witness ==
    /\ fx.kind = "hit"
    /\ ~fx.rerun
    /\ now - cache[1].at = TTL - SLEEP
    /\ api # AllOk(1)

\* C4: after a refresh request the cache is empty until the next read, and
\* that read performs a new fetch whose result is what it returns.
C4_RefreshInvalidates ==
    [][/\ fx.kind = "refresh" => cache = <<>>
       /\ (fx.kind = "refresh" /\ runbit' # runbit) =>
              /\ fx'.kind = "miss" /\ fx'.http >= 1
              /\ cache' = <<[value |-> market_data'[1], at |-> now]>>]_vars

C4_Witness ==
    /\ fx.kind = "refresh"
    /\ market_data # <<>>
    /\ now < TTL
    /\ cache = <<>>

\* C10: whatever a fetch returns is stored, the synthetic fallback and a
\* partial or empty snapshot included, and a read within 300 seconds of a
\* degraded fetch returns that snapshot without a new live attempt, whatever
\* the API would answer by then.
C10_DegradedCached ==
    [][ReadStep =>
          /\ fx'.kind = "miss" => cache' = <<[value |-> market_data'[1], at |-> now]>>
          /\ (cache # <<>> /\ now - cache[1].at < TTL /\ Degraded(cache[1].value))
                 => /\ market_data' = <<cache[1].value>>
                    /\ fx'.http = 0
                    /\ cache' = cache]_vars

C10_Witness ==
    /\ fx.kind = "hit"
    /\ ~fx.rerun
    /\ Degraded(market_data[1])
    /\ api = AllOk(2)
    /\ now > cache[1].at

-----------------------------------------------------------------------------
(* Properties of the performance series and the risk page *)

Agents == {"AI", "RL"}

Generated == ppc \in {"done", "risk"}

timestamps(agent) ==
    LET rows == SelectAgent(data, agent) IN [t \in 1 .. Len(rows) |-> rows[t].timestamp]

Labels(ms) == {ms[i].label : i \in 1 .. Len(ms)}

shown(agent) == IF agent = "AI" THEN risk[1].ai ELSE risk[1].rl

plotted(agent) ==
    IF agent = "AI" THEN risk[1].chart.ai_drawdown ELSE risk[1].chart.rl_drawdown

C7_HourlyGrid ==
    Generated =>
        /\ \A a \in Agents :
               LET ts == timestamps(a)
               IN /\ Len(ts) = hours + 1
                  /\ ts[1] = now - hours * HOUR
                  /\ ts[Len(ts)] = now
                  /\ \A t \in 1 .. (Len(ts) - 1) : ts[t + 1] = ts[t] + HOUR
                  /\ \A t, u \in 1 .. Len(ts) : t < u => ts[t] < ts[u]
        /\ timestamps("AI") = timestamps("RL")
        /\ Len(data) = 2 * (hours + 1)

C7_Witness ==
    /\ ppc = "done"
    /\ hours >= 22
    /\ Len(timestamps("RL")) = hours + 1
    /\ data[1].agent = "AI"
    /\ data[2].agent = "RL"

\* C8: on the risk page VaR (5%) is shown for an agent exactly when its
\* series has at least 21 step returns, that is at least 22 balance samples;
\* below that it is left out altogether, while Volatility and Sharpe Ratio
\* are shown all the same.
C8_VarThreshold ==
    ppc = "risk" =>
        \A a \in Agents :
            LET b == balances(data, a)
                ms == shown(a)
            IN /\ ("VaR (5%)" \in Labels(ms)) <=> (Len(b) >= 22)
               /\ ("VaR (5%)" \in Labels(ms)) <=> (Len(b) - 1 >= 21)
               /\ {"Volatility", "Sharpe Ratio"} \subseteq Labels(ms)
               /\ Len(b) < 22 => Len(ms) = 2
               /\ Len(b) >= 22 => Len(ms) = 3

C8_Witness ==
    /\ ppc = "risk"
    /\ Len(balances(data, "AI")) = 22
    /\ "VaR (5%)" \in Labels(risk[1].ai)
    /\ "VaR (5%)" \in Labels(risk[1].rl)

\* C9: for an empty or a single-point series the risk computation does not
\* fail and yields empty outputs for all fields: no volatility, no Sharpe
\* ratio, no VaR, an empty drawdown series.
C9_EmptyOutputs ==
    (ppc = "risk" /\ \A a \in Agents : Len(balances(data, a)) <= 1) =>
        /\ risk # <<>>
        /\ \A a \in Agents : shown(a) = <<>> /\ plotted(a) = <<>>

====
